---- MODULE Spec2Model ----
(***************************************************************************)
(* Model of the solvent alternative finder: the similarity engine          *)
(* (mdmodels.solvent_similarity), the PubChem record builder               *)
(* (get_cid, get_experimental_properties_from_pubchem, find_properties,    *)
(* get_solvent_from_pubchem, get_solvent_list), the web handler that       *)
(* builds the weight map (app.similarity), the command-line query          *)
(* (solvent_cli) and the catalog builder loop (solvent_db_builder).        *)
(*                                                                         *)
(* Python floats are modelled as exact rationals [n, d] in lowest terms    *)
(* with d > 0.  Python dicts are functions whose domain is the set of keys *)
(* present; the empty dict and the empty list are both <<>>.               *)
(***************************************************************************)
EXTENDS Integers, Sequences, FiniteSets, TLC

VARIABLES
    db,          \* similarity: the catalog (candidate sequence)
    query,       \* similarity: the arguments of the last solvent_similarity call
    results,     \* similarity: the list returned by the last call
    recordResp,  \* extraction: the pug_view record response under test
    exp,         \* extraction: outcome of get_experimental_properties_from_pubchem
    built,       \* extraction: outcome of get_solvent_from_pubchem
    identifiers, \* batch: the argument of get_solvent_list
    batch,       \* batch: outcome of get_solvent_list
    names,       \* builder: the names read from solvents_list.txt
    pc,          \* position of the running program
    idx,         \* builder: index of the name being processed (enumerate)
    attempt,     \* builder: the retry counter
    solvents,    \* builder: the records built so far
    saved,       \* builder: content of solvents_db.json
    lookups      \* builder: per name index, the number of lookups and the last outcome

vars == <<db, query, results, recordResp, exp, built, identifiers, batch,
          names, pc, idx, attempt, solvents, saved, lookups>>

simVars == <<db, query, results>>
treeVars == <<recordResp, exp, built>>
batchVars == <<identifiers, batch>>
buildVars == <<names, idx, attempt, solvents, saved, lookups>>

----------------------------------------------------------------------------
(* Bounds *)

MaxCands == 3
MaxTopN == 3
MaxRoot == 2
MaxIds == 3
MaxNames == 2

----------------------------------------------------------------------------
(* Python helpers: sequences, dicts, exact rational arithmetic *)

Abs(i) == IF i < 0 THEN -i ELSE i

RECURSIVE GCD(_, _)
GCD(a, b) == IF b = 0 THEN a ELSE GCD(b, a % b)

Rat(n, d) ==
    LET g == GCD(Abs(n), Abs(d))
        s == IF d < 0 THEN -1 ELSE 1
    IN [n |-> (s * n) \div g, d |-> (s * d) \div g]

Zero == [n |-> 0, d |-> 1]
One == [n |-> 1, d |-> 1]
RInt(i) == [n |-> i, d |-> 1]
RAdd(a, b) == Rat(a.n * b.d + b.n * a.d, a.d * b.d)
RSub(a, b) == Rat(a.n * b.d - b.n * a.d, a.d * b.d)
RMul(a, b) == Rat(a.n * b.n, a.d * b.d)
RDiv(a, b) == Rat(a.n * b.d, a.d * b.n)
RAbs(a) == [n |-> Abs(a.n), d |-> a.d]
RLe(a, b) == a.n * b.d <= b.n * a.d
RLt(a, b) == a.n * b.d < b.n * a.d
RMax(a, b) == IF RLt(a, b) THEN b ELSE a

\* dict.get(k, default)
Get(d, k, default) == IF k \in DOMAIN d THEN d[k] ELSE default

\* d[k] = v
Put(d, k, v) == [h \in (DOMAIN d) \cup {k} |-> IF h = k THEN v ELSE d[h]]

\* list[:n] for n >= 0
Take(s, n) == SubSeq(s, 1, IF n < Len(s) THEN n ELSE Len(s))

SeqsUpTo(S, n) == UNION {[1..k -> S] : k \in 0..n}

----------------------------------------------------------------------------
(* SolventModel: every attribute is None, a float or a string *)

None == [k |-> "none", v |-> Zero, s |-> ""]
Num(n, d) == [k |-> "num", v |-> Rat(n, d), s |-> ""]
Str(t) == [k |-> "str", v |-> Zero, s |-> t]

\* isinstance(val, (float, int))
IsNumeric(val) == val.k = "num"

EmptyModel(nm) ==
    [name |-> nm,
     molecular_formula |-> None, molar_mass |-> None,
     boiling_point |-> None, melting_point |-> None, density |-> None,
     vapor_pressure |-> None, water_solubility |-> None,
     dipole_moment |-> None, dielectric_constant |-> None, logP |-> None,
     smiles |-> None, refractive_index |-> None, flash_point |-> None,
     heat_capacity |-> None, viscosity |-> None,
     pKa |-> None, pKb |-> None, pKw |-> None]

----------------------------------------------------------------------------
(* mdmodels.solvent_similarity *)

fields ==
    <<"boiling_point", "melting_point", "density", "vapor_pressure",
      "dipole_moment", "dielectric_constant", "water_solubility",
      "refractive_index", "flash_point", "heat_capacity", "viscosity",
      "pKa", "pKb", "pKw">>

FieldSet == {fields[i] : i \in 1..Len(fields)}

\* weights = {f: 1 for f in fields} when the caller passes None
NoWeights == [none |-> TRUE, map |-> <<>>]
Weights(m) == [none |-> FALSE, map |-> m]

DefaultWeights(w) == IF w.none THEN [f \in FieldSet |-> 1] ELSE w.map

\* weights.get(f, 0)
\* variant: weights.get(f, 1)
BaseWeightMutant(w, f) == Get(w, f, 1)
BaseWeight(w, f) == Get(w, f, 0)

\* the attribute takes part in the score of cand
\* variant: the candidate's value is not tested for being numeric
ContributesMutant(reference, cand, w, f) ==
    /\ BaseWeight(w, f) > 0
    /\ IsNumeric(reference[f])
Contributes(reference, cand, w, f) ==
    /\ BaseWeight(w, f) > 0
    /\ IsNumeric(reference[f])
    /\ IsNumeric(cand[f])

RelDiff(ref_val, cand_val) ==
    IF ref_val.n = 0
    THEN RAbs(RSub(ref_val, cand_val))
    ELSE RDiv(RAbs(RSub(ref_val, cand_val)), RAbs(ref_val))

CloseThreshold == [n |-> 1, d |-> 10]
NearThreshold == [n |-> 1, d |-> 5]

\* variant: rel_diff < 0.1 in place of rel_diff <= 0.1
DynWeightMutant(base_weight, rel_diff) ==
    IF RLt(rel_diff, CloseThreshold) THEN RInt(base_weight * 2)
    ELSE IF RLe(rel_diff, NearThreshold) THEN Rat(base_weight * 3, 2)
    ELSE RInt(base_weight)
DynWeight(base_weight, rel_diff) ==
    IF RLe(rel_diff, CloseThreshold) THEN RInt(base_weight * 2)
    ELSE IF RLe(rel_diff, NearThreshold) THEN Rat(base_weight * 3, 2)
    ELSE RInt(base_weight)

\* the loop over fields: accumulates dist_sum and weight_sum from field i on
RECURSIVE Accumulate(_, _, _, _, _)
Accumulate(reference, cand, w, i, acc) ==
    IF i > Len(fields) THEN acc
    ELSE LET f == fields[i]
             rel_diff == RelDiff(reference[f].v, cand[f].v)
             dyn_weight == DynWeight(BaseWeight(w, f), rel_diff)
         IN IF Contributes(reference, cand, w, f)
            THEN Accumulate(reference, cand, w, i + 1,
                   [dist_sum |-> RAdd(acc.dist_sum, RMul(dyn_weight, rel_diff)),
                    weight_sum |-> RAdd(acc.weight_sum, dyn_weight)])
            ELSE Accumulate(reference, cand, w, i + 1, acc)

Sums(reference, cand, w) ==
    Accumulate(reference, cand, w, 1, [dist_sum |-> Zero, weight_sum |-> Zero])

\* variant: the clamp max(0.0, ...) is left out
SimilarityMutant(sums) == RSub(One, RDiv(sums.dist_sum, sums.weight_sum))
Similarity(sums) == RMax(Zero, RSub(One, RDiv(sums.dist_sum, sums.weight_sum)))

\* the loop over candidates: the unsorted results list
RECURSIVE Scored(_, _, _, _)
Scored(reference, candidates, w, i) ==
    IF i > Len(candidates) THEN <<>>
    ELSE LET sums == Sums(reference, candidates[i], w)
         IN IF sums.weight_sum = Zero
            THEN Scored(reference, candidates, w, i + 1)
            ELSE <<[cand |-> candidates[i], score |-> Similarity(sums)]>>
                 \o Scored(reference, candidates, w, i + 1)

\* list.sort(key=lambda x: x[1], reverse=True): stable, descending
\* variant: a sort that puts a later candidate before its ties
RECURSIVE InsertDescMutant(_, _)
InsertDescMutant(sorted, x) ==
    IF sorted = <<>> THEN <<x>>
    ELSE IF RLe(sorted[1].score, x.score) THEN <<x>> \o sorted
    ELSE <<sorted[1]>> \o InsertDescMutant(Tail(sorted), x)
RECURSIVE InsertDesc(_, _)
InsertDesc(sorted, x) ==
    IF sorted = <<>> THEN <<x>>
    ELSE IF RLt(sorted[1].score, x.score) THEN <<x>> \o sorted
    ELSE <<sorted[1]>> \o InsertDesc(Tail(sorted), x)

\* variant: the list is not sorted at all
RECURSIVE SortDescMutant(_, _)
SortDescMutant(list, i) ==
    IF i = 0 THEN <<>> ELSE SortDescMutant(list, i - 1) \o <<list[i]>>
RECURSIVE SortDesc(_, _)
SortDesc(list, i) ==
    IF i = 0 THEN <<>> ELSE InsertDesc(SortDesc(list, i - 1), list[i])

Truncate(list, top_n) == Take(list, top_n)

solvent_similarity(reference, candidates, top_n, weights) ==
    LET w == DefaultWeights(weights)
        scored == Scored(reference, candidates, w, 1)
    IN Truncate(SortDesc(scored, Len(scored)), top_n)

----------------------------------------------------------------------------
(* app.similarity: the weight map built from the submitted form *)

PARAMS ==
    <<"boiling_point", "melting_point", "density", "vapor_pressure",
      "refractive_index", "flash_point", "viscosity">>

ParamSet == {PARAMS[i] : i \in 1..Len(PARAMS)}

\* f"w_{p}"
FormKey(p) == "w_" \o p

\* int(s) for the strings a form field may carry; any other string raises
IntLiterals == ("0" :> 0) @@ ("1" :> 1) @@ ("2" :> 2) @@ ("-1" :> -1)

\* try: weights[p] = int(form.get(f"w_{p}", 1))  except Exception: weights[p] = 1
FormWeight(form, p) ==
    IF FormKey(p) \notin DOMAIN form THEN 1
    ELSE IF form[FormKey(p)] \in DOMAIN IntLiterals
         THEN IntLiterals[form[FormKey(p)]]
         ELSE 1

FormWeights(form) == [p \in ParamSet |-> FormWeight(form, p)]

\* top_n=10 in app.similarity and solvent_cli
CallerTopN == 10

----------------------------------------------------------------------------
(* Inputs of the similarity engine *)

WithAttrs(nm, bp, mp, ws, pka) ==
    [EmptyModel(nm) EXCEPT !.boiling_point = bp, !.melting_point = mp,
                           !.water_solubility = ws, !.pKa = pka]

\* attribute combinations of catalog entries: <<boiling_point, melting_point,
\* water_solubility, pKa>>
CandPool ==
    { <<Num(100, 1), Num(0, 1), Str("miscible"), Num(157, 10)>>,
      <<Num(102, 1), Num(0, 1), None, None>>,
      <<Num(110, 1), Num(1, 10), Num(5, 1), Num(160, 10)>>,
      <<Num(120, 1), Num(1, 5), Str("miscible"), None>>,
      <<Num(300, 1), None, Num(5, 1), None>> }

RefPool ==
    { <<Num(100, 1), Num(0, 1), Num(5, 1), Num(157, 10)>>,
      <<None, Num(0, 1), None, Num(157, 10)>>,
      <<None, None, Str("miscible"), None>> }

CandName(i) == <<"c1", "c2", "c3", "c4", "c5">>[i]

Catalogs ==
    { [i \in 1..Len(c) |-> WithAttrs(CandName(i), c[i][1], c[i][2], c[i][3], c[i][4])] :
        c \in SeqsUpTo(CandPool, MaxCands) }

References == { WithAttrs("ref", r[1], r[2], r[3], r[4]) : r \in RefPool }

WeightPool ==
    { NoWeights,
      Weights(<<>>),
      Weights([f \in FieldSet |-> 0]),
      Weights([f \in {"boiling_point", "melting_point"} |-> 1]),
      Weights([f \in {"boiling_point", "melting_point", "pKa"} |->
                 IF f = "boiling_point" THEN 2 ELSE 1]),
      Weights([f \in {"boiling_point", "melting_point", "water_solubility"} |->
                 IF f = "boiling_point" THEN 0 ELSE 1]) }

FormVals == {"0", "2", "abc", "-1"}

Forms ==
    UNION { [K -> FormVals] : K \in { {}, {FormKey("boiling_point")} } }
    \cup { [k \in {FormKey("boiling_point"), FormKey("melting_point")} |->
              IF k = FormKey("boiling_point") THEN "2" ELSE "abc"],
           [k \in {FormKey(p) : p \in ParamSet} |-> "0"] }

NoQuery ==
    [via |-> "none", found |-> FALSE, reference |-> EmptyModel(""),
     weights |-> NoWeights, top_n |-> 0, form |-> <<>>]

SimIdle == /\ db = <<>>
           /\ query = NoQuery
           /\ results = <<>>

SimInit == /\ db \in Catalogs
           /\ query = NoQuery
           /\ results = <<>>

\* a direct call of solvent_similarity(reference, db, top_n, weights)
Query(reference, top_n, weights) ==
    /\ pc = "sim_ready"
    /\ pc' = "sim_done"
    /\ query' = [via |-> "call", found |-> TRUE, reference |-> reference,
                 weights |-> weights, top_n |-> top_n, form |-> <<>>]
    /\ results' = solvent_similarity(reference, db, top_n, weights)
    /\ UNCHANGED db

\* solvent_cli: ref = get_solvent_from_pubchem(ref_name); not found: nothing printed
CliQuery(found, reference) ==
    /\ pc = "sim_ready"
    /\ pc' = "sim_done"
    /\ query' = [via |-> "cli", found |-> found,
                 reference |-> IF found THEN reference ELSE EmptyModel(""),
                 weights |-> NoWeights, top_n |-> CallerTopN, form |-> <<>>]
    /\ results' = IF found
                  THEN solvent_similarity(reference, db, CallerTopN, NoWeights)
                  ELSE <<>>
    /\ UNCHANGED db

\* app.similarity: weights from the form, "results": [] when the reference is not found
similarity(found, reference, form) ==
    /\ pc = "sim_ready"
    /\ pc' = "sim_done"
    /\ query' = [via |-> "web", found |-> found,
                 reference |-> IF found THEN reference ELSE EmptyModel(""),
                 weights |-> Weights(FormWeights(form)), top_n |-> CallerTopN,
                 form |-> form]
    /\ results' = IF found
                  THEN solvent_similarity(reference, db, CallerTopN,
                                          Weights(FormWeights(form)))
                  ELSE <<>>
    /\ UNCHANGED db

----------------------------------------------------------------------------
(* HTTP responses: r.ok and r.json() *)

Response(ok, json) == [ok |-> ok, json |-> json]
NotOk == Response(FALSE, <<>>)

\* python truthiness of None, a float and a string
Truthy(val) ==
    \/ val.k = "str" /\ val.s # ""
    \/ val.k = "num" /\ val.v # Zero

----------------------------------------------------------------------------
(* mdmodels.get_cid: 0 stands for None, which "if not cid" treats alike *)

namespaces == <<"name", "rn">>

RECURSIVE get_cid_from(_, _)
get_cid_from(cidResps, i) ==
    IF i > Len(namespaces) THEN 0
    ELSE LET r == cidResps[namespaces[i]]
             cids == Get(Get(r.json, "IdentifierList", <<>>), "CID", <<>>)
         IN IF r.ok /\ cids # <<>>
            THEN cids[1]
            ELSE get_cid_from(cidResps, i + 1)

get_cid(cidResps) == get_cid_from(cidResps, 1)

----------------------------------------------------------------------------
(* mdmodels.get_experimental_properties_from_pubchem and find_properties *)

keys ==
    {"Boiling Point", "Melting Point", "Density", "Refractive Index",
     "Solubility", "Vapor Pressure", "Dielectric Constant", "Dipole Moment",
     "Flash Point", "Autoignition Temperature", "Heat Capacity", "Viscosity",
     "pKa", "pKb", "pKw"}

\* an outcome is a returned value or a raised exception
Returns(val) == [exc |-> "none", val |-> val]
Raises(e) == [exc |-> e, val |-> <<>>]

\* info.get("Value", {}).get("StringWithMarkup", [{}])[0].get("String")
InfoString(info) ==
    LET swm == Get(Get(info, "Value", <<>>), "StringWithMarkup", << <<>> >>)
    IN IF swm = <<>> THEN Raises("IndexError")
       ELSE Returns(Get(swm[1], "String", None))

\* for info in section["Information"]: ... if val: result[toc] = val
RECURSIVE ScanInformation(_, _, _, _)
ScanInformation(toc, infos, i, result) ==
    IF i > Len(infos) THEN Returns(result)
    ELSE LET val == InfoString(infos[i])
         IN IF val.exc # "none" THEN Raises(val.exc)
            ELSE IF Truthy(val.val)
                 THEN ScanInformation(toc, infos, i + 1, Put(result, toc, val.val))
                 ELSE ScanInformation(toc, infos, i + 1, result)

\* find_properties(sections, keys) from section i on, updating result
RECURSIVE find_properties(_, _, _)
find_properties(sections, i, result) ==
    IF i > Len(sections) THEN Returns(result)
    ELSE LET section == sections[i]
             hasToc == "TOCHeading" \in DOMAIN section
             own == IF /\ hasToc
                       /\ section["TOCHeading"] \in keys
                       /\ "Information" \in DOMAIN section
                    THEN ScanInformation(section["TOCHeading"],
                                         section["Information"], 1, result)
                    ELSE Returns(result)
             sub == IF own.exc # "none" THEN own
                    ELSE IF "Section" \in DOMAIN section
                         THEN find_properties(section["Section"], 1, own.val)
                         ELSE own
         IN IF sub.exc # "none" THEN sub
            ELSE find_properties(sections, i + 1, sub.val)

get_experimental_properties_from_pubchem(r) ==
    IF ~r.ok THEN Returns(<<>>)
    ELSE LET root_sections == Get(Get(r.json, "Record", <<>>), "Section", <<>>)
         IN find_properties(root_sections, 1, <<>>)

----------------------------------------------------------------------------
(* mdmodels.get_solvent_from_pubchem *)

\* re.search(r"[-+]?[0-9]*\.?[0-9]+", val): the first number in the texts used
FirstNumber ==
    ("100 C" :> Num(100, 1)) @@ ("101 C" :> Num(101, 1)) @@
    ("78.5 C (lit.)" :> Num(785, 10)) @@ ("79 C" :> Num(79, 1)) @@
    ("-40" :> Num(-40, 1)) @@ ("18.015" :> Num(18015, 1000)) @@
    ("46.07" :> Num(4607, 100))

parse_float(val) ==
    IF val.k = "none" THEN None
    ELSE IF val.s \in DOMAIN FirstNumber THEN FirstNumber[val.s]
    ELSE None

\* a float field of SolventModel takes a number or a numeric string
AsFloat(val) ==
    IF val.k = "str" /\ val.s \in DOMAIN FirstNumber THEN FirstNumber[val.s]
    ELSE val

get_smiles(props) ==
    IF Truthy(Get(props, "IsomericSMILES", None))
    THEN props["IsomericSMILES"]
    ELSE IF Truthy(Get(props, "CanonicalSMILES", None))
         THEN props["CanonicalSMILES"]
    ELSE IF Truthy(Get(props, "SMILES", None))
         THEN props["SMILES"]
    ELSE Get(props, "ConnectivitySMILES", None)

NotFound == [exc |-> "none", found |-> FALSE, model |-> EmptyModel("")]
Found(sm) == [exc |-> "none", found |-> TRUE, model |-> sm]
Raised(e) == [exc |-> e, found |-> FALSE, model |-> EmptyModel("")]

\* r.json().get("PropertyTable", {}).get("Properties", [{}])[0]
FirstProperties(r) ==
    LET table == Get(Get(r.json, "PropertyTable", <<>>), "Properties", << <<>> >>)
    IN IF table = <<>> THEN Raises("IndexError") ELSE Returns(table[1])

BuildModel(identifier, props, e) ==
    [name |-> identifier,
     molecular_formula |-> Get(props, "MolecularFormula", None),
     molar_mass |-> AsFloat(Get(props, "MolecularWeight", None)),
     boiling_point |-> parse_float(Get(e, "Boiling Point", None)),
     melting_point |-> parse_float(Get(e, "Melting Point", None)),
     density |-> parse_float(Get(e, "Density", None)),
     vapor_pressure |-> parse_float(Get(e, "Vapor Pressure", None)),
     water_solubility |-> Get(e, "Solubility", None),
     dipole_moment |-> parse_float(Get(e, "Dipole Moment", None)),
     dielectric_constant |-> parse_float(Get(e, "Dielectric Constant", None)),
     logP |-> AsFloat(Get(props, "XLogP", None)),
     smiles |-> get_smiles(props),
     refractive_index |-> parse_float(Get(e, "Refractive Index", None)),
     flash_point |-> parse_float(Get(e, "Flash Point", None)),
     heat_capacity |-> parse_float(Get(e, "Heat Capacity", None)),
     viscosity |-> parse_float(Get(e, "Viscosity", None)),
     pKa |-> parse_float(Get(e, "pKa", None)),
     pKb |-> parse_float(Get(e, "pKb", None)),
     pKw |-> parse_float(Get(e, "pKw", None))]

\* world: the responses PubChem gives for the identifier
get_solvent_from_pubchem(identifier, world) ==
    IF get_cid(world.cids) = 0 THEN NotFound
    ELSE IF ~world.props.ok THEN NotFound
    ELSE LET props == FirstProperties(world.props)
             e == get_experimental_properties_from_pubchem(world.record)
         IN IF props.exc # "none" THEN Raised(props.exc)
            ELSE IF DOMAIN props.val = {} THEN NotFound
            ELSE IF e.exc # "none" THEN Raised(e.exc)
            ELSE Found(BuildModel(identifier, props.val, e.val))

----------------------------------------------------------------------------
(* mdmodels.get_solvent_list *)

RECURSIVE get_solvent_list_from(_, _, _, _)
get_solvent_list_from(idents, pubchem, i, result) ==
    IF i > Len(idents) THEN Returns(result)
    ELSE LET sm == get_solvent_from_pubchem(idents[i], pubchem[idents[i]])
         IN IF sm.exc # "none" THEN Raises(sm.exc)
            ELSE IF sm.found
                 THEN get_solvent_list_from(idents, pubchem, i + 1,
                                            Append(result, sm.model))
                 ELSE get_solvent_list_from(idents, pubchem, i + 1, result)

get_solvent_list(idents, pubchem) == get_solvent_list_from(idents, pubchem, 1, <<>>)

----------------------------------------------------------------------------
(* Inputs of the extraction: pug_view documents and property tables *)

Info(text) == [Value |-> [StringWithMarkup |-> <<[String |-> Str(text)]>>]]

\* sections without children
LeafSections ==
    { [TOCHeading |-> "Boiling Point", Information |-> <<Info("100 C")>>],
      [TOCHeading |-> "Boiling Point",
       Information |-> <<Info("78.5 C (lit.)"), Info("79 C")>>],
      \* an empty StringWithMarkup list
      [TOCHeading |-> "Boiling Point",
       Information |-> <<[Value |-> [StringWithMarkup |-> <<>>]]>>],
      \* no Value, no StringWithMarkup, no String, an empty String
      [TOCHeading |-> "Boiling Point",
       Information |-> << <<>>, [Value |-> <<>>],
                          [Value |-> [StringWithMarkup |-> << <<>> >>]],
                          Info("") >>],
      \* neither Information nor Section
      [TOCHeading |-> "Boiling Point"],
      [TOCHeading |-> "Solubility", Information |-> <<Info("miscible")>>],
      \* no TOCHeading
      [Information |-> <<Info("100 C")>>] }

\* sections with children
Parents(kids) ==
    { [TOCHeading |-> "Experimental Properties", Section |-> kids],
      [TOCHeading |-> "Boiling Point", Information |-> <<Info("101 C")>>,
       Section |-> kids] }

\* a section is a leaf or a parent of no or one leaf
Sections ==
    LeafSections \cup Parents(<<>>)
    \cup UNION { Parents(<<kid>>) : kid \in LeafSections }

Trees == SeqsUpTo(Sections, MaxRoot)

RecordResponses ==
    { NotOk, Response(TRUE, <<>>) }
    \cup { Response(TRUE, [Record |-> [Section |-> t]]) : t \in Trees }

CidFound(cid) == Response(TRUE, [IdentifierList |-> [CID |-> <<cid>>]])

CidWorlds ==
    { [name |-> CidFound(962), rn |-> NotOk],
      [name |-> NotOk, rn |-> CidFound(702)],
      [name |-> Response(TRUE, <<>>), rn |-> Response(TRUE, [IdentifierList |-> <<>>])],
      [name |-> NotOk, rn |-> NotOk] }

WaterProps ==
    [MolecularFormula |-> Str("H2O"), MolecularWeight |-> Str("18.015"),
     XLogP |-> Num(-1, 2), IsomericSMILES |-> Str("O"),
     CanonicalSMILES |-> Str("O")]

EthanolProps ==
    [MolecularFormula |-> Str("C2H6O"), MolecularWeight |-> Str("46.07"),
     SMILES |-> Str("CCO"), ConnectivitySMILES |-> Str("CCO")]

PropsTable(rows) == Response(TRUE, [PropertyTable |-> [Properties |-> rows]])

PropsResponses ==
    { NotOk, Response(TRUE, <<>>), PropsTable(<<>>), PropsTable(<< <<>> >>),
      PropsTable(<<WaterProps>>), PropsTable(<<EthanolProps>>) }

----------------------------------------------------------------------------
(* The extraction programs: one document is searched, one record is built *)

NoOutcome == [exc |-> "unset", val |-> <<>>]
NoBuilt == [exc |-> "unset", found |-> FALSE, model |-> EmptyModel(""),
            world |-> <<>>]

TreeInit == /\ recordResp \in RecordResponses
            /\ exp = NoOutcome
            /\ built = NoBuilt

\* get_experimental_properties_from_pubchem(cid) on the record response
Extract ==
    /\ pc = "tree_ready"
    /\ pc' = "tree_done"
    /\ exp' = get_experimental_properties_from_pubchem(recordResp)
    /\ UNCHANGED <<recordResp, built>>

\* get_solvent_from_pubchem("probe") against the given responses
BuildRecord(cids, props) ==
    LET world == [cids |-> cids, props |-> props, record |-> recordResp]
        out == get_solvent_from_pubchem("probe", world)
    IN /\ pc = "tree_ready"
       /\ pc' = "tree_done"
       /\ built' = [exc |-> out.exc, found |-> out.found, model |-> out.model,
                    world |-> world]
       /\ UNCHANGED <<recordResp, exp>>

----------------------------------------------------------------------------
(* The PubChem answers used by the batch and by the catalog builder *)

DocOf(sections) == Response(TRUE, [Record |-> [Section |-> sections]])

PubChem ==
    ("water" :>
        [cids |-> [name |-> CidFound(962), rn |-> NotOk],
         props |-> PropsTable(<<WaterProps>>),
         record |-> DocOf(<<[TOCHeading |-> "Experimental Properties",
                             Section |-> <<[TOCHeading |-> "Boiling Point",
                                            Information |-> <<Info("100 C")>>]>>]>>)])
    @@ ("unknownxyz123" :>
        [cids |-> [name |-> NotOk, rn |-> NotOk],
         props |-> NotOk,
         record |-> NotOk])
    @@ ("ethanol" :>
        [cids |-> [name |-> NotOk, rn |-> CidFound(702)],
         props |-> PropsTable(<<EthanolProps>>),
         record |-> DocOf(<<[TOCHeading |-> "Boiling Point",
                             Information |-> <<Info("78.5 C (lit.)"), Info("79 C")>>]>>)])
    @@ ("glycerol" :>
        [cids |-> [name |-> CidFound(753), rn |-> NotOk],
         props |-> NotOk,
         record |-> NotOk])
    \* the property table has an empty Properties list
    @@ ("toluene" :>
        [cids |-> [name |-> CidFound(1140), rn |-> NotOk],
         props |-> PropsTable(<<>>),
         record |-> NotOk])
    \* the document has an empty StringWithMarkup list
    @@ ("hexane" :>
        [cids |-> [name |-> CidFound(8058), rn |-> NotOk],
         props |-> PropsTable(<<WaterProps>>),
         record |-> DocOf(<<[TOCHeading |-> "Boiling Point",
                             Information |-> <<[Value |-> [StringWithMarkup |-> <<>>]]>>]>>)])

Identifiers == DOMAIN PubChem

----------------------------------------------------------------------------
(* The batch program: get_solvent_list over a sequence of identifiers *)

BatchInit == /\ identifiers \in SeqsUpTo(Identifiers, MaxIds)
             /\ batch = NoOutcome

BuildBatch ==
    /\ pc = "batch_ready"
    /\ pc' = "batch_done"
    /\ batch' = get_solvent_list(identifiers, PubChem)
    /\ UNCHANGED identifiers

----------------------------------------------------------------------------
(* solvent_db_builder: the loop over the names with up to three attempts *)

\* while attempt < 3
\* variant: while attempt <= 3
MayRetryMutant(a) == a <= 3
MayRetry(a) == a < 3

\* [s.model_dump() for s in solvents]
model_dump(sm) == [f \in DOMAIN sm |-> sm[f]]
Dump(list) == [i \in 1..Len(list) |-> model_dump(list[i])]

BuildInit == /\ names \in SeqsUpTo(Identifiers, MaxNames)
             /\ idx = 0
             /\ attempt = 0
             /\ solvents = <<>>
             /\ saved = <<>>
             /\ lookups = [i \in 1..Len(names) |-> [n |-> 0, last |-> "none"]]

\* for i, name in enumerate(names, 1): attempt = 0
NextName ==
    /\ pc = "b_for"
    /\ idx < Len(names)
    /\ idx' = idx + 1
    /\ attempt' = 0
    /\ pc' = "b_while"
    /\ UNCHANGED <<names, solvents, saved, lookups>>

\* the for loop is exhausted
Finish ==
    /\ pc = "b_for"
    /\ idx = Len(names)
    /\ pc' = "b_done"
    /\ UNCHANGED <<names, idx, attempt, solvents, saved, lookups>>

\* what get_solvent_from_pubchem(name) gives while PubChem is reachable
Answer == [name \in Identifiers |-> get_solvent_from_pubchem(name, PubChem[name])]

\* one pass of the while body; unreachable: requests raises a connection error
Lookup(unreachable) ==
    LET out == IF unreachable THEN Raised("ConnectionError")
               ELSE Answer[names[idx]]
        outcome == IF out.exc # "none" THEN "raised"
                   ELSE IF out.found THEN "record" ELSE "nothing"
    IN /\ pc = "b_while"
       /\ MayRetry(attempt)
       /\ lookups' = [lookups EXCEPT ![idx] = [n |-> @.n + 1, last |-> outcome]]
       /\ IF outcome = "raised"
          THEN /\ attempt' = attempt + 1
               /\ UNCHANGED <<pc, solvents>>
          ELSE /\ solvents' = IF outcome = "record"
                              THEN Append(solvents, out.model) ELSE solvents
               /\ pc' = "b_save"
               /\ UNCHANGED attempt
       /\ UNCHANGED <<names, idx, saved>>

\* the while condition fails after the third error
GiveUp ==
    /\ pc = "b_while"
    /\ ~MayRetry(attempt)
    /\ pc' = "b_save"
    /\ UNCHANGED <<names, idx, attempt, solvents, saved, lookups>>

\* json.dump([s.model_dump() for s in solvents], f)
Save ==
    /\ pc = "b_save"
    /\ saved' = Dump(solvents)
    /\ pc' = "b_for"
    /\ UNCHANGED <<names, idx, attempt, solvents, lookups>>

----------------------------------------------------------------------------
(* Values of the variables a program does not use *)

TreeIdle == /\ recordResp = NotOk
            /\ exp = NoOutcome
            /\ built = NoBuilt

BatchIdle == /\ identifiers = <<>>
             /\ batch = NoOutcome

BuildIdle == /\ names = <<>>
             /\ idx = 0
             /\ attempt = 0
             /\ solvents = <<>>
             /\ saved = <<>>
             /\ lookups = <<>>

----------------------------------------------------------------------------
(* The similarity programs: a library call, solvent_cli and app.similarity *)

InitSim == /\ pc = "sim_ready"
           /\ SimInit
           /\ TreeIdle
           /\ BatchIdle
           /\ BuildIdle

NextSim ==
    \/ /\ \E reference \in References, top_n \in 0..MaxTopN, weights \in WeightPool :
             Query(reference, top_n, weights)
       /\ UNCHANGED <<treeVars, batchVars, buildVars>>
    \/ /\ \E found \in BOOLEAN, reference \in References : CliQuery(found, reference)
       /\ UNCHANGED <<treeVars, batchVars, buildVars>>
    \/ /\ \E found \in BOOLEAN, reference \in References, form \in Forms :
             similarity(found, reference, form)
       /\ UNCHANGED <<treeVars, batchVars, buildVars>>

SpecSim == InitSim /\ [][NextSim]_vars

----------------------------------------------------------------------------
(* The extraction programs *)

InitTree == /\ pc = "tree_ready"
            /\ TreeInit
            /\ SimIdle
            /\ BatchIdle
            /\ BuildIdle

NextTree ==
    \/ /\ Extract
       /\ UNCHANGED <<simVars, batchVars, buildVars>>
    \/ /\ \E cids \in CidWorlds, props \in PropsResponses : BuildRecord(cids, props)
       /\ UNCHANGED <<simVars, batchVars, buildVars>>

SpecTree == InitTree /\ [][NextTree]_vars

----------------------------------------------------------------------------
(* The batch program *)

InitBatch == /\ pc = "batch_ready"
             /\ BatchInit
             /\ SimIdle
             /\ TreeIdle
             /\ BuildIdle

NextBatch == /\ BuildBatch
             /\ UNCHANGED <<simVars, treeVars, buildVars>>

SpecBatch == InitBatch /\ [][NextBatch]_vars

----------------------------------------------------------------------------
(* The catalog builder; every step of the script is eventually taken *)

InitBuild == /\ pc = "b_for"
             /\ BuildInit
             /\ SimIdle
             /\ TreeIdle
             /\ BatchIdle

NextBuild ==
    \/ NextName /\ UNCHANGED <<simVars, treeVars, batchVars>>
    \/ Finish /\ UNCHANGED <<simVars, treeVars, batchVars>>
    \/ (\E unreachable \in BOOLEAN : Lookup(unreachable))
          /\ UNCHANGED <<simVars, treeVars, batchVars>>
    \/ GiveUp /\ UNCHANGED <<simVars, treeVars, batchVars>>
    \/ Save /\ UNCHANGED <<simVars, treeVars, batchVars>>

SpecBuild == InitBuild /\ [][NextBuild]_vars /\ WF_vars(NextBuild)

----------------------------------------------------------------------------
(* The scoring rule as the specification words it, over a total weight      *)
(* function wf and the set of contributing attributes                      *)

SimDone == pc = "sim_done" /\ query.found

\* the weight of every comparison attribute when unmentioned ones count as dflt
CompletedWeights(dflt) ==
    [f \in FieldSet |->
        IF query.weights.none THEN 1
        ELSE IF f \in DOMAIN query.weights.map THEN query.weights.map[f]
        ELSE dflt]

SpecContributing(cand, wf) ==
    {f \in FieldSet : /\ wf[f] > 0
                      /\ query.reference[f].k = "num"
                      /\ cand[f].k = "num"}

SpecDeviation(cand, f) ==
    LET r == query.reference[f].v
        c == cand[f].v
        diff == RAbs(RSub(r, c))
    IN IF r # Zero THEN RDiv(diff, RAbs(r)) ELSE diff

SpecEffective(cand, wf, f) ==
    LET d == SpecDeviation(cand, f)
    IN IF RLe(d, Rat(10, 100)) THEN Rat(2 * wf[f], 1)
       ELSE IF RLe(d, Rat(20, 100)) THEN Rat(15 * wf[f], 10)
       ELSE Rat(wf[f], 1)

RECURSIVE SpecW(_, _, _)
SpecW(cand, wf, F) ==
    IF F = {} THEN Zero
    ELSE LET f == CHOOSE g \in F : TRUE
         IN RAdd(SpecEffective(cand, wf, f), SpecW(cand, wf, F \ {f}))

RECURSIVE SpecS(_, _, _)
SpecS(cand, wf, F) ==
    IF F = {} THEN Zero
    ELSE LET f == CHOOSE g \in F : TRUE
         IN RAdd(RMul(SpecEffective(cand, wf, f), SpecDeviation(cand, f)),
                 SpecS(cand, wf, F \ {f}))

SpecScore(cand, wf) ==
    LET F == SpecContributing(cand, wf)
        avg == RDiv(SpecS(cand, wf, F), SpecW(cand, wf, F))
    IN IF RLe(One, avg) THEN Zero ELSE RSub(One, avg)

\* position of a returned candidate in the input sequence
PosOf(cand) == CHOOSE k \in 1..Len(db) : db[k] = cand

Returned == {results[i].cand : i \in 1..Len(results)}

\* the results are the candidates that contribute under wf, capped, each with
\* the score the rule gives under wf
ScoredUnder(wf) ==
    LET scorable == {k \in 1..Len(db) : SpecContributing(db[k], wf) # {}}
    IN /\ \A i \in 1..Len(results) :
             /\ SpecContributing(results[i].cand, wf) # {}
             /\ results[i].score = SpecScore(results[i].cand, wf)
       /\ Len(results) = IF Cardinality(scorable) < query.top_n
                         THEN Cardinality(scorable) ELSE query.top_n

----------------------------------------------------------------------------
(* Claims about the similarity engine *)

\* C1: every score in the list returned by solvent_similarity lies in [0, 1],
\* for every reference, candidate sequence, weight map and cap.
C1_ScoresInUnitInterval ==
    \A i \in 1..Len(results) :
        /\ RLe(Zero, results[i].score)
        /\ RLe(results[i].score, One)

\* a returned candidate whose average deviation exceeds 1 and is clamped to 0
C1_Witness ==
    /\ SimDone
    /\ \E i \in 1..Len(results) :
          LET sums == Sums(query.reference, results[i].cand,
                           CompletedWeights(0))
          IN /\ RLt(One, RDiv(sums.dist_sum, sums.weight_sum))
             /\ results[i].score = Zero

\* C2: the returned list is ordered by non-increasing score, candidates with
\* equal scores keep their input order, and truncation to the cap keeps this:
\* a scored candidate that was cut off ranks after every returned one.
C2_OrderedAndStable ==
    /\ \A i, j \in 1..Len(results) :
          i < j =>
             /\ RLe(results[j].score, results[i].score)
             /\ results[i].score = results[j].score
                   => PosOf(results[i].cand) < PosOf(results[j].cand)
    /\ \A i \in 1..Len(results), k \in 1..Len(db) :
          (SimDone /\ db[k] \notin Returned
             /\ SpecContributing(db[k], CompletedWeights(0)) # {}) =>
             LET sk == SpecScore(db[k], CompletedWeights(0))
             IN /\ RLe(sk, results[i].score)
                /\ sk = results[i].score => PosOf(results[i].cand) < k

\* two tied candidates are returned while a third scored candidate is cut off
C2_Witness ==
    /\ SimDone
    /\ Len(results) = 2
    /\ results[1].score = results[2].score
    /\ results[1].cand # results[2].cand
    /\ \E k \in 1..Len(db) :
          /\ db[k] \notin Returned
          /\ SpecContributing(db[k], CompletedWeights(0)) # {}

\* C3: a candidate is returned only if some comparison attribute with
\* configured weight > 0 is numeric in both the reference and the candidate;
\* an all-zero weight map or a reference without numeric attributes gives
\* an empty result.
C3_OnlyContributingReturned ==
    SimDone =>
       /\ \A i \in 1..Len(results) :
             \E f \in FieldSet :
                /\ CompletedWeights(0)[f] > 0
                /\ query.reference[f].k = "num"
                /\ results[i].cand[f].k = "num"
       /\ (\A f \in FieldSet : CompletedWeights(0)[f] = 0) => results = <<>>
       /\ (\A f \in FieldSet : query.reference[f].k # "num") => results = <<>>

\* a candidate without contributing attribute is dropped while another
\* candidate of the same query is returned
C3_Witness ==
    /\ SimDone
    /\ results # <<>>
    /\ Len(results) < query.top_n
    /\ \E k \in 1..Len(db) :
          /\ db[k] \notin Returned
          /\ SpecContributing(db[k], CompletedWeights(0)) = {}

\* C4 (as claimed): an attribute the supplied weight map does not mention is
\* scored with weight 1.
C4_UnmentionedDefaultsToOne ==
    SimDone => ScoredUnder(CompletedWeights(1))

\* C4 (amended): an attribute the supplied weight map does not mention is
\* excluded from scoring like an explicit 0; every attribute has weight 1
\* only when no weight map is supplied; the web handler mentions exactly the
\* PARAMS attributes and gives 1 to those whose form field is missing or is
\* not an integer.
C4_UnmentionedExcluded ==
    SimDone =>
       /\ ScoredUnder(CompletedWeights(0))
       /\ query.via = "cli" => \A f \in FieldSet : CompletedWeights(0)[f] = 1
       /\ query.via = "web" =>
             /\ DOMAIN query.weights.map = ParamSet
             /\ \A p \in ParamSet :
                   (\/ FormKey(p) \notin DOMAIN query.form
                    \/ query.form[FormKey(p)] = "abc")
                      => query.weights.map[p] = 1

\* a web query returns a candidate although pKa, which the weight map does
\* not mention, is numeric in the reference and in that candidate; and a
\* PARAMS attribute without form field contributes with weight 1
C4_Witness ==
    /\ SimDone
    /\ query.via = "web"
    /\ FormKey("melting_point") \notin DOMAIN query.form
    /\ \E i \in 1..Len(results) :
          /\ query.reference["pKa"].k = "num"
          /\ results[i].cand["pKa"].k = "num"
          /\ query.reference["pKa"] # results[i].cand["pKa"]
          /\ "melting_point" \in SpecContributing(results[i].cand, CompletedWeights(0))

\* C7: a candidate equal to the reference on every comparison attribute of
\* weight > 0 (at least one of them numeric) is returned with score exactly 1;
\* it is missing from the result only when the cap is already filled by
\* candidates of score 1 that precede it in the input.
C7_IdenticalScoresOne ==
    SimDone =>
       \A k \in 1..Len(db) :
          (/\ \A f \in FieldSet :
                 CompletedWeights(0)[f] > 0 => db[k][f] = query.reference[f]
           /\ SpecContributing(db[k], CompletedWeights(0)) # {}) =>
             \/ \E i \in 1..Len(results) :
                   results[i].cand = db[k] /\ results[i].score = One
             \/ /\ Len(results) = query.top_n
                /\ \A i \in 1..Len(results) :
                      results[i].score = One /\ PosOf(results[i].cand) < k

\* an identical candidate is returned with score 1 behind which a candidate
\* of lower score is returned, the identical one not being first in the input
C7_Witness ==
    /\ SimDone
    /\ Len(results) >= 2
    /\ results[1].score = One
    /\ PosOf(results[1].cand) > 1
    /\ \A f \in FieldSet :
          CompletedWeights(0)[f] > 0 => results[1].cand[f] = query.reference[f]
    /\ results[2].score # One

\* C9: every returned score is max(0, 1 - S/W) with the deviation, the
\* effective weights (x2 up to 0.10, x1.5 up to 0.20, unchanged above) and
\* the sums S and W of the rule; reference 100/0 against candidate 102/0 with
\* both weights 1 gives W = 4, S = 0.04 and score 0.99.
C9_ScoreFormula ==
    SimDone =>
       \A i \in 1..Len(results) :
          LET cand == results[i].cand
              wf == CompletedWeights(0)
              sums == Sums(query.reference, cand, DefaultWeights(query.weights))
          IN /\ results[i].score = SpecScore(cand, wf)
             /\ (/\ query.reference.boiling_point = Num(100, 1)
                 /\ query.reference.melting_point = Num(0, 1)
                 /\ cand.boiling_point = Num(102, 1)
                 /\ cand.melting_point = Num(0, 1)
                 /\ SpecContributing(cand, wf) = {"boiling_point", "melting_point"}
                 /\ wf["boiling_point"] = 1
                 /\ wf["melting_point"] = 1) =>
                    /\ sums.weight_sum = Rat(4, 1)
                    /\ sums.dist_sum = Rat(4, 100)
                    /\ results[i].score = Rat(99, 100)

\* the worked example is returned, together with candidates whose deviation
\* is exactly 0.10 and exactly 0.20
C9_Witness ==
    /\ SimDone
    /\ query.reference.boiling_point = Num(100, 1)
    /\ query.reference.melting_point = Num(0, 1)
    /\ query.weights = Weights([f \in {"boiling_point", "melting_point"} |-> 1])
    /\ \E i, j, k \in 1..Len(results) :
          /\ results[i].cand.boiling_point = Num(102, 1)
          /\ results[i].cand.melting_point = Num(0, 1)
          /\ results[i].score = Rat(99, 100)
          /\ results[j].cand.boiling_point = Num(110, 1)
          /\ results[k].cand.boiling_point = Num(120, 1)

----------------------------------------------------------------------------
(* Claims about the Property-Tree Searcher and the Record Builder *)

\* the text of a leaf value, None when the entry lacks the expected structure
SpecLeafText(info) ==
    IF /\ "Value" \in DOMAIN info
       /\ "StringWithMarkup" \in DOMAIN info["Value"]
       /\ Len(info["Value"]["StringWithMarkup"]) > 0
       /\ "String" \in DOMAIN info["Value"]["StringWithMarkup"][1]
    THEN info["Value"]["StringWithMarkup"][1]["String"]
    ELSE None

\* the non-empty leaf values of the target headings in depth-first order, a
\* node before its children
RECURSIVE SpecMatches(_, _)
SpecMatches(sections, i) ==
    IF i > Len(sections) THEN <<>>
    ELSE LET section == sections[i]
             infos == IF /\ "TOCHeading" \in DOMAIN section
                         /\ section["TOCHeading"] \in keys
                         /\ "Information" \in DOMAIN section
                      THEN section["Information"] ELSE <<>>
             own == [j \in 1..Len(infos) |->
                       [h |-> section["TOCHeading"], text |-> SpecLeafText(infos[j])]]
             kids == IF "Section" \in DOMAIN section
                     THEN SpecMatches(section["Section"], 1) ELSE <<>>
         IN SelectSeq(own, LAMBDA m : Truthy(m.text)) \o kids
            \o SpecMatches(sections, i + 1)

SearchedSections ==
    IF recordResp.ok
    THEN Get(Get(recordResp.json, "Record", <<>>), "Section", <<>>)
    ELSE <<>>

\* C5: the searcher is first-wins: the value returned for a heading is the
\* first one met in depth-first order, in the same node or across branches.
C5_FirstWins ==
    (pc = "tree_done" /\ exp.exc = "none") =>
       LET m == SpecMatches(SearchedSections, 1)
       IN \A h \in DOMAIN exp.val :
             \E j \in 1..Len(m) :
                /\ m[j].h = h
                /\ m[j].text = exp.val[h]
                /\ \A l \in 1..(j - 1) : m[l].h # h

\* C6: on structurally irregular payloads the searcher and the record
\* builder raise no exception: they return a mapping, a record or not found.
C6_NeverRaises ==
    /\ exp.exc \in {"unset", "none"}
    /\ built.exc \in {"unset", "none"}

\* the identifiers that yield a record, in input order: the identifier
\* resolves to a compound and the property table has a non-empty first row
RECURSIVE SpecBatchFrom(_)
SpecBatchFrom(i) ==
    IF i > Len(identifiers) THEN <<>>
    ELSE LET world == PubChem[identifiers[i]]
             resolved == \E ns \in {"name", "rn"} :
                            /\ world.cids[ns].ok
                            /\ "IdentifierList" \in DOMAIN world.cids[ns].json
             rows == IF world.props.ok
                     THEN world.props.json["PropertyTable"]["Properties"]
                     ELSE <<>>
         IN IF resolved /\ Len(rows) > 0 /\ DOMAIN rows[1] # {}
            THEN <<identifiers[i]>> \o SpecBatchFrom(i + 1)
            ELSE SpecBatchFrom(i + 1)

\* C8: get_solvent_list returns exactly the records of the identifiers that
\* yield a record, in input order; an identifier that yields nothing is
\* skipped and never aborts the batch.
C8_BatchSkipsAndKeepsOrder ==
    pc = "batch_done" =>
       /\ batch.exc = "none"
       /\ [i \in 1..Len(batch.val) |-> batch.val[i].name] = SpecBatchFrom(1)

----------------------------------------------------------------------------
(* Claims about the catalog builder *)

\* the names up to index k whose last lookup returned a record
RECURSIVE SpecBuilt(_)
SpecBuilt(k) ==
    IF k = 0 THEN <<>>
    ELSE IF lookups[k].last = "record"
         THEN Append(SpecBuilt(k - 1), names[k])
         ELSE SpecBuilt(k - 1)

NamesOf(list) == [i \in 1..Len(list) |-> list[i].name]

C10_Safety ==
    /\ \A i \in 1..Len(names) : lookups[i].n <= 3
    /\ \A i \in 1..Len(names) : i > idx => lookups[i].n = 0
    \* a further attempt only after the previous one raised
    /\ pc = "b_while" =>
          /\ lookups[idx].n = attempt
          /\ attempt > 0 => lookups[idx].last = "raised"
    /\ \A i \in 1..Len(names) :
          lookups[i].n > 1 =>
             (lookups[i].last = "raised" \/ lookups[i].n <= 3)
    \* a finished name was looked up until it returned or had raised 3 times
    /\ \A i \in 1..Len(names) :
          (i < idx \/ (i = idx /\ pc # "b_while")) =>
             \/ lookups[i].last \in {"record", "nothing"} /\ lookups[i].n >= 1
             \/ lookups[i].last = "raised" /\ lookups[i].n = 3
    \* the records built so far: one per name that returned a record, in order
    /\ NamesOf(solvents) = SpecBuilt(idx)
    /\ Len(solvents) <= idx
    \* after each name the persisted catalog holds the records built so far
    /\ pc \in {"b_for", "b_done"} => saved = solvents
    /\ pc = "b_done" => idx = Len(names)

\* C10: each name is looked up at most 3 times, again only after an error; a
\* name that returns nothing or fails 3 times adds no record and the loop goes
\* on; after each name the persisted catalog holds exactly the records built
\* so far, at most one per name and in input order; the loop terminates
\* after the last name.
C10_BuilderLoop == []C10_Safety /\ <>(pc = "b_done")

\* the loop ended after a name that failed 3 times and a name whose record
\* came on the second attempt
C10_Witness ==
    /\ pc = "b_done"
    /\ Len(names) = 2
    /\ lookups[1] = [n |-> 3, last |-> "raised"]
    /\ lookups[2] = [n |-> 2, last |-> "record"]
    /\ Len(saved) = 1
    /\ saved[1].name = names[2]

====
